---- MODULE Spec2Model ----
(***************************************************************************)
(* Model of the database update coordination of FSearch (src/fsearch.c):   *)
(* the main loop (actions, idle callbacks, shutdown), the database thread  *)
(* pool and its worker (database_pool_func), the cancellable shared by all *)
(* requests, and the reference counted database snapshots.                 *)
(***************************************************************************)
EXTENDS Integers, Sequences, FiniteSets, TLC

\* ------------------------------------------------------------------ bounds
\* number of scan/load requests (and so of databases) one behaviour creates
MaxRequests == 2
\* number of callers that can hold a snapshot from fsearch_application_get_db
MaxHolders == 1
\* number of distinct values of the database part of the configuration
MaxIndexes == 2

\* number of calls of database_notify_status_cb one behaviour makes
MaxStatus == 2

\* largest update_database_every_hours and update_database_every_minutes a
\* configuration holds
MaxHours == 1
MaxMinutes == 1

\* number of paths in one call of fsearch_file_utils_open_path_list, and number of
\* messages the shared error_message buffer takes up
MaxPaths == 2
MaxMessages == 3

\* ------------------------------------------------------- program constants
\* g_thread_pool_new(database_pool_func, app, 1, TRUE, NULL): max_threads
db_pool_max_threads_two == 1 + 1
db_pool_max_threads == 1

NULL == 0

FSEARCH_DATABASE_ACTION_SCAN == "SCAN"
FSEARCH_DATABASE_ACTION_LOAD == "LOAD"

FSEARCH_DATABASE_STATE_IDLE == "Idle"
FSEARCH_DATABASE_STATE_SCANNING == "Scanning"
FSEARCH_DATABASE_STATE_LOADING == "Loading"

Requests == 1..MaxRequests
Holders == 1..MaxHolders

\* FsearchConfig, reduced to the fields the update protocol reads
AllConfigs ==
    [indexes : 1..MaxIndexes, update_database_on_launch : BOOLEAN,
     update_database_every : BOOLEAN,
     update_database_every_hours : 0..MaxHours,
     update_database_every_minutes : 0..MaxMinutes]

\* configurations with the periodic update switched off
Configs ==
    {c \in AllConfigs : /\ ~c.update_database_every
                        /\ c.update_database_every_hours = 0
                        /\ c.update_database_every_minutes = 0}

\* configurations that differ only in the settings of the periodic update
TimerConfigs == {c \in AllConfigs : c.indexes = 1 /\ ~c.update_database_on_launch}

\* the NULL FsearchConfig pointer, written as a record so that it compares with
\* configurations; ConfigArgs are the arguments the preferences dialog can hand over
NULL_CONFIG ==
    [indexes |-> NULL, update_database_on_launch |-> FALSE, update_database_every |-> FALSE,
     update_database_every_hours |-> 0, update_database_every_minutes |-> 0]
ConfigArgs == Configs \cup {NULL_CONFIG}

VARIABLES
    db,                          \* app->db: the published database (a request id) or NULL
    db_state,                    \* app->db_state
    cancelled,                   \* state of app->db_thread_cancellable
    num_database_update_active,  \* app->num_database_update_active
    is_shutting_down,            \* app->is_shutting_down
    config,                      \* app->config
    update_enabled,              \* enabled state of the action update_database
    cancel_enabled,              \* enabled state of the action cancel_update_database
    db_pool,                     \* queue of app->db_pool: pushed contexts not yet taken
    req,                         \* the DatabaseUpdateContexts ever pushed, with the worker's position
    next_req,                    \* number of contexts pushed so far
    idle,                        \* idle sources attached to the main context, in order
    ref_count,                   \* db->ref_count of the database made for each request
    held,                        \* snapshot held by each caller of fsearch_application_get_db
    main,                        \* main thread: "running", "shutting" (in g_thread_pool_free), "exited"
    has_window,                  \* an application window exists
    db_file,                     \* database whose content is in the file on disk
    cancel_in,                   \* db_state in which the pending cancellation was requested
    unlocked_access,             \* functions that touched app->db or the counter without the state lock
    num_status,                  \* number of calls of database_notify_status_cb so far
    db_timeout_id,               \* app->db_timeout_id: id of the auto-update timer or 0
    timeouts,                    \* timeout sources attached to the main context: id and interval
    local,                       \* a process started with --update-database: its inputs and position
    opener                       \* the error_message buffer handed to fsearch_file_utils_open_path_list
                                 \* and what the last call was given, recorded and returned

vars == <<db, db_state, cancelled, num_database_update_active, is_shutting_down,
          config, update_enabled, cancel_enabled, db_pool, req, next_req, idle,
          ref_count, held, main, has_window, db_file, cancel_in, unlocked_access,
          num_status, db_timeout_id, timeouts, local, opener>>

\* ---------------------------------------------------------------- helpers
\* a DatabaseUpdateContext and the database made for it: the action, the worker's
\* position (pc), what db_scan / db_load returned (result), whether db_scan saw the
\* cancellable set (saw_cancel), and whether a cancel was requested while the request
\* was in flight (creq: "none", "inflight", or "running" when it was the running one
\* and db_state was not idle)
NoRequest == [action |-> FSEARCH_DATABASE_ACTION_SCAN, pc |-> "none", result |-> FALSE,
              saw_cancel |-> FALSE, creq |-> "none"]

\* a request is executing between its started callback and its finished callback
ExecutingPcs == {"started", "created", "returned", "updated"}
Executing == {r \in Requests : req[r].pc \in ExecutingPcs}

\* in flight: accepted by the enqueue, finish handler not yet run
InFlight == {r \in Requests : req[r].pc \in ExecutingPcs \cup {"queued", "finished"}}

PendingScanEnqueue == Cardinality({i \in 1..Len(idle) : idle[i].kind = "scan_enqueue"})

\* requests that can still be created within MaxRequests
Budget == MaxRequests - next_req - PendingScanEnqueue

IdleSource(kind, r) == [kind |-> kind, r |-> r]

\* db_ref / db_unref on the reference counts
db_ref(rc, d) == IF d = NULL \/ rc[d] <= 0 THEN rc ELSE [rc EXCEPT ![d] = @ + 1]
db_unref(rc, d) == IF d = NULL \/ rc[d] <= 0 THEN rc ELSE [rc EXCEPT ![d] = @ - 1]

\* whether the body of a function that reads or writes app->db or
\* num_database_update_active runs between fsearch_application_state_lock and
\* fsearch_application_state_unlock (fsearch_application_get_db takes no lock itself;
\* its callers are outside this file and are not recorded)
holds_state_lock ==
    [database_scan_or_load_enqueue |-> FALSE,
     on_database_update_finished |-> TRUE,
     fsearch_application_shutdown |-> FALSE]

\* the record of unlocked accesses after function fn touched app->db or the counter
Access(fn) == IF holds_state_lock[fn] THEN unlocked_access ELSE unlocked_access \cup {fn}

\* config_cmp(...).database_config_changed
database_config_changed(old, new) == old.indexes # new.indexes

\* ------------------------------------------------------------------- Init
\* fsearch_application_startup: db NULL, state idle, cancellable new, config loaded,
\* empty pool, not shutting down; GSimpleActions are created enabled
Startup(configs) ==
    /\ db = NULL
    /\ db_state = FSEARCH_DATABASE_STATE_IDLE
    /\ cancelled = FALSE
    /\ num_database_update_active = 0
    /\ is_shutting_down = FALSE
    /\ config \in configs
    /\ update_enabled = TRUE
    /\ cancel_enabled = TRUE
    /\ db_pool = <<>>
    /\ req = [r \in Requests |-> NoRequest]
    /\ next_req = 0
    /\ idle = <<>>
    /\ ref_count = [r \in Requests |-> 0]
    /\ held = [h \in Holders |-> NULL]
    /\ main = "running"
    /\ has_window = FALSE
    /\ db_file = NULL
    /\ cancel_in = "none"
    /\ unlocked_access = {}
    /\ num_status = 0
    /\ db_timeout_id = 0
    /\ timeouts = {}

\* no process with --update-database has been started
NoLocalRun ==
    [primary |-> FALSE, name_acquired |-> FALSE, reply |-> FALSE, config_load |-> FALSE,
     config_load_default |-> FALSE, db_scan |-> FALSE, db_path |-> FALSE, db_save |-> FALSE,
     pc |-> "none", update_called_on_primary |-> FALSE, activated |-> FALSE,
     scanned |-> FALSE, saved |-> FALSE, res |-> 0]

\* no path has been opened: the caller's error_message buffer is empty
NoOpenCall ==
    [sandboxed |-> FALSE, error_message |-> <<>>, paths |-> <<>>, recorded |-> 0,
     called |-> FALSE, ret |-> FALSE]

Init == Startup(Configs) /\ local = NoLocalRun /\ opener = NoOpenCall

\* ------------------------------------------------- main thread: auto-update timer
\* g_timeout_add_seconds attaches a source under an id no attached source has
NewSourceId(sources) ==
    CHOOSE i \in 1..(Cardinality(sources) + 1) :
        /\ \A t \in sources : t.id # i
        /\ \A j \in 1..(i - 1) : \E t \in sources : t.id = j

\* database_auto_update_init with the configuration cfg in app->config
\* (first variant: as if the registered timer were not removed)
database_auto_update_init_no_remove(cfg) ==
    IF cfg.update_database_every
    THEN LET seconds == cfg.update_database_every_hours * 3600
                        + cfg.update_database_every_minutes * 60
             id == NewSourceId(timeouts)
         IN /\ db_timeout_id' = id
            /\ timeouts' = timeouts \cup {[id |-> id,
                                           seconds |-> IF seconds < 60 THEN 60 ELSE seconds]}
    ELSE /\ db_timeout_id' = 0
         /\ timeouts' = timeouts

database_auto_update_init(cfg) ==
    LET removed == {t \in timeouts : t.id # db_timeout_id}
    IN IF cfg.update_database_every
       THEN LET seconds == cfg.update_database_every_hours * 3600
                           + cfg.update_database_every_minutes * 60
                id == NewSourceId(removed)
            IN /\ db_timeout_id' = id
               /\ timeouts' = removed \cup {[id |-> id,
                                             seconds |-> IF seconds < 60 THEN 60 ELSE seconds]}
       ELSE /\ db_timeout_id' = 0
            /\ timeouts' = removed

\* ------------------------------------------------- main thread: enqueueing
\* database_scan_or_load_enqueue, called once for each element of acts in turn
\* (first variant: as if the counter were set to 1 instead of incremented)
database_scan_or_load_enqueue_set_one(acts) ==
    /\ update_enabled' = FALSE
    /\ cancel_enabled' = TRUE
    /\ cancelled' = FALSE
    /\ cancel_in' = "none"
    /\ num_database_update_active' = 1
    /\ req' = [r \in Requests |->
                 IF r > next_req /\ r <= next_req + Len(acts)
                 THEN [NoRequest EXCEPT !.action = acts[r - next_req], !.pc = "queued"]
                 ELSE req[r]]
    /\ db_pool' = db_pool \o [i \in 1..Len(acts) |-> next_req + i]
    /\ next_req' = next_req + Len(acts)
    /\ unlocked_access' = Access("database_scan_or_load_enqueue")

database_scan_or_load_enqueue(acts) ==
    /\ update_enabled' = FALSE
    /\ cancel_enabled' = TRUE
    /\ cancelled' = FALSE
    /\ cancel_in' = "none"
    /\ num_database_update_active' = num_database_update_active + Len(acts)
    /\ req' = [r \in Requests |->
                 IF r > next_req /\ r <= next_req + Len(acts)
                 THEN [NoRequest EXCEPT !.action = acts[r - next_req], !.pc = "queued"]
                 ELSE req[r]]
    /\ db_pool' = db_pool \o [i \in 1..Len(acts) |-> next_req + i]
    /\ next_req' = next_req + Len(acts)
    /\ unlocked_access' = Access("database_scan_or_load_enqueue")

\* (as if the scan were enqueued before the load)
fsearch_application_activate_scan_first(new_window) ==
    /\ UNCHANGED <<num_status, local, opener>>
    /\ database_auto_update_init(config)
    /\ main = "running"
    /\ new_window \/ ~has_window
    /\ has_window' = TRUE
    /\ LET acts == IF config.update_database_on_launch
                   THEN <<FSEARCH_DATABASE_ACTION_SCAN, FSEARCH_DATABASE_ACTION_LOAD>>
                   ELSE <<FSEARCH_DATABASE_ACTION_LOAD>>
       IN /\ Budget >= Len(acts)
          /\ database_scan_or_load_enqueue(acts)
    /\ UNCHANGED <<db, db_state, is_shutting_down, config, idle, ref_count, held, main, db_file>>

\* fsearch_application_activate
fsearch_application_activate(new_window) ==
    /\ UNCHANGED <<num_status, local, opener>>
    /\ database_auto_update_init(config)
    /\ main = "running"
    /\ new_window \/ ~has_window
    /\ has_window' = TRUE
    /\ LET acts == IF config.update_database_on_launch
                   THEN <<FSEARCH_DATABASE_ACTION_LOAD, FSEARCH_DATABASE_ACTION_SCAN>>
                   ELSE <<FSEARCH_DATABASE_ACTION_LOAD>>
       IN /\ Budget >= Len(acts)
          /\ database_scan_or_load_enqueue(acts)
    /\ UNCHANGED <<db, db_state, is_shutting_down, config, idle, ref_count, held, main, db_file>>

\* (as if the activation did not test the enabled state)
action_update_database_activated_unguarded ==
    /\ UNCHANGED <<num_status, db_timeout_id, timeouts, local, opener>>
    /\ main = "running"
    /\ Budget >= 1
    /\ database_scan_or_load_enqueue(<<FSEARCH_DATABASE_ACTION_SCAN>>)
    /\ UNCHANGED <<db, db_state, is_shutting_down, config, idle, ref_count, held, main,
                   has_window, db_file>>

\* action_update_database_activated; a disabled GSimpleAction is not activated
action_update_database_activated ==
    /\ UNCHANGED <<num_status, db_timeout_id, timeouts, local, opener>>
    /\ main = "running"
    /\ update_enabled
    /\ Budget >= 1
    /\ database_scan_or_load_enqueue(<<FSEARCH_DATABASE_ACTION_SCAN>>)
    /\ UNCHANGED <<db, db_state, is_shutting_down, config, idle, ref_count, held, main,
                   has_window, db_file>>

\* on_preferences_ui_finished(new_config) (the preferences dialog needs a window):
\* return on NULL; compare only when a configuration exists; replace; enqueue on change
\* (first variant: as if NULL were not tested)
on_preferences_ui_finished_no_null_test(new_config) ==
    /\ UNCHANGED <<num_status, local, opener>>
    /\ database_auto_update_init(new_config)
    /\ main = "running"
    /\ has_window
    /\ config' = new_config
    /\ IF config = NULL_CONFIG \/ database_config_changed(config, new_config)
       THEN /\ Budget >= 1
            /\ database_scan_or_load_enqueue(<<FSEARCH_DATABASE_ACTION_SCAN>>)
       ELSE UNCHANGED <<update_enabled, cancel_enabled, cancelled, cancel_in,
                        num_database_update_active, req, db_pool, next_req, unlocked_access>>
    /\ new_config # config
    /\ UNCHANGED <<db, db_state, is_shutting_down, idle, ref_count, held, main,
                   has_window, db_file>>

on_preferences_ui_finished(new_config) ==
    /\ UNCHANGED <<num_status, local, opener>>
    /\ main = "running"
    /\ has_window
    /\ IF new_config = NULL_CONFIG
       THEN UNCHANGED <<config, update_enabled, cancel_enabled, cancelled, cancel_in,
                        num_database_update_active, req, db_pool, next_req, unlocked_access,
                        db_timeout_id, timeouts>>
       ELSE /\ config' = new_config
            /\ database_auto_update_init(new_config)
            /\ IF config = NULL_CONFIG \/ database_config_changed(config, new_config)
               THEN /\ Budget >= 1
                    /\ database_scan_or_load_enqueue(<<FSEARCH_DATABASE_ACTION_SCAN>>)
               ELSE UNCHANGED <<update_enabled, cancel_enabled, cancelled, cancel_in,
                                num_database_update_active, req, db_pool, next_req,
                                unlocked_access>>
    /\ new_config # config
    /\ UNCHANGED <<db, db_state, is_shutting_down, idle, ref_count, held, main,
                   has_window, db_file>>

\* action_cancel_update_database_activated
action_cancel_update_database_activated ==
    /\ UNCHANGED <<unlocked_access, num_status, db_timeout_id, timeouts, local, opener>>
    /\ main = "running"
    /\ cancel_enabled
    /\ cancelled' = TRUE
    /\ cancel_in' = IF cancelled THEN cancel_in
                    ELSE IF db_state = FSEARCH_DATABASE_STATE_IDLE THEN "idle" ELSE "busy"
    /\ req' = [r \in Requests |->
                 IF r \in InFlight
                 THEN [req[r] EXCEPT !.creq =
                          IF @ = "running" \/ (r \in Executing
                                               /\ db_state # FSEARCH_DATABASE_STATE_IDLE)
                          THEN "running" ELSE "inflight"]
                 ELSE req[r]]
    /\ UNCHANGED <<db, db_state, num_database_update_active, is_shutting_down, config,
                   update_enabled, cancel_enabled, db_pool, next_req, idle, ref_count, held,
                   main, has_window, db_file>>

\* --------------------------------------------------- database worker thread
\* GThreadPool: a pushed context is taken, oldest first, when fewer than
\* max_threads tasks are running; database_pool_func then calls started_cb
\* (database_scan_started_cb / database_load_started_cb)
\* position in the queue of the context the pool hands out next: the pool has no
\* sort function, so it is the oldest one
PoolNextNewest(q) == Len(q)
PoolNext(q) == 1

PoolRemove(q, i) == SubSeq(q, 1, i - 1) \o SubSeq(q, i + 1, Len(q))

database_pool_func_start ==
    /\ UNCHANGED <<unlocked_access, num_status, db_timeout_id, timeouts, local, opener>>
    /\ db_pool # <<>>
    /\ Cardinality(Executing) < db_pool_max_threads
    /\ LET r == db_pool[PoolNext(db_pool)]
       IN /\ db_pool' = PoolRemove(db_pool, PoolNext(db_pool))
          /\ req' = [req EXCEPT ![r].pc = "started"]
          /\ db_state' = IF req[r].action = FSEARCH_DATABASE_ACTION_SCAN
                         THEN FSEARCH_DATABASE_STATE_SCANNING
                         ELSE FSEARCH_DATABASE_STATE_LOADING
          /\ idle' = Append(idle,
                            IdleSource(IF req[r].action = FSEARCH_DATABASE_ACTION_SCAN
                                       THEN "scan_started" ELSE "load_started", r))
    /\ UNCHANGED <<db, cancelled, num_database_update_active, is_shutting_down, config,
                   update_enabled, cancel_enabled, next_req, ref_count, held, main,
                   has_window, db_file, cancel_in>>

\* database_pool_func: db_new under the state lock; the new database has one reference
database_pool_func_db_new(r) ==
    /\ UNCHANGED <<unlocked_access, num_status, db_timeout_id, timeouts, local, opener>>
    /\ req[r].pc = "started"
    /\ req' = [req EXCEPT ![r].pc = "created"]
    /\ ref_count' = [ref_count EXCEPT ![r] = 1]
    /\ UNCHANGED <<db, db_state, cancelled, num_database_update_active, is_shutting_down,
                   config, update_enabled, cancel_enabled, db_pool, next_req, idle, held,
                   main, has_window, db_file, cancel_in>>

\* db_scan polls the cancellable, finds it set and returns early with a partial store
db_scan_cancelled(r) ==
    /\ UNCHANGED <<unlocked_access, num_status, db_timeout_id, timeouts, local, opener>>
    /\ req[r].pc = "created"
    /\ req[r].action = FSEARCH_DATABASE_ACTION_SCAN
    /\ cancelled
    /\ req' = [req EXCEPT ![r].pc = "returned", ![r].result = FALSE, ![r].saw_cancel = TRUE]
    /\ UNCHANGED <<db, db_state, cancelled, num_database_update_active, is_shutting_down,
                   config, update_enabled, cancel_enabled, db_pool, next_req, idle, ref_count,
                   held, main, has_window, db_file, cancel_in>>

\* db_scan runs to its end without seeing a cancellation and returns success or failure
db_scan_returns(r, ok) ==
    /\ UNCHANGED <<unlocked_access, num_status, db_timeout_id, timeouts, local, opener>>
    /\ req[r].pc = "created"
    /\ req[r].action = FSEARCH_DATABASE_ACTION_SCAN
    /\ req' = [req EXCEPT ![r].pc = "returned", ![r].result = ok]
    /\ UNCHANGED <<db, db_state, cancelled, num_database_update_active, is_shutting_down,
                   config, update_enabled, cancel_enabled, db_pool, next_req, idle, ref_count,
                   held, main, has_window, db_file, cancel_in>>

\* database_scan_and_save after db_scan returned: save unless failed or cancelled
\* (first variant: as if db_save were given app->db)
database_scan_and_save_published(r, save_ok) ==
    /\ UNCHANGED <<unlocked_access, num_status, db_timeout_id, timeouts, local, opener>>
    /\ req[r].pc = "returned"
    /\ IF req[r].result /\ ~cancelled
       THEN /\ req' = [req EXCEPT ![r].pc = "updated"]
            /\ db_file' = IF save_ok THEN db ELSE db_file
       ELSE /\ req' = [req EXCEPT ![r].pc = "updated"]
            /\ save_ok
            /\ UNCHANGED db_file
    /\ UNCHANGED <<db, db_state, cancelled, num_database_update_active, is_shutting_down,
                   config, update_enabled, cancel_enabled, db_pool, next_req, idle, ref_count,
                   held, main, has_window, cancel_in>>

\* (second variant: as if the cancellable were not tested before db_save)
database_scan_and_save_ignores_cancel(r, save_ok) ==
    /\ UNCHANGED <<unlocked_access, num_status, db_timeout_id, timeouts, local, opener>>
    /\ req[r].pc = "returned"
    /\ IF req[r].result
       THEN /\ req' = [req EXCEPT ![r].pc = "updated"]
            /\ db_file' = IF save_ok THEN r ELSE db_file
       ELSE /\ req' = [req EXCEPT ![r].pc = "updated"]
            /\ save_ok
            /\ UNCHANGED db_file
    /\ UNCHANGED <<db, db_state, cancelled, num_database_update_active, is_shutting_down,
                   config, update_enabled, cancel_enabled, db_pool, next_req, idle, ref_count,
                   held, main, has_window, cancel_in>>

database_scan_and_save(r, save_ok) ==
    /\ UNCHANGED <<unlocked_access, num_status, db_timeout_id, timeouts, local, opener>>
    /\ req[r].pc = "returned"
    /\ IF req[r].result /\ ~cancelled
       THEN /\ req' = [req EXCEPT ![r].pc = "updated"]
            /\ db_file' = IF save_ok THEN r ELSE db_file
       ELSE /\ req' = [req EXCEPT ![r].pc = "updated"]
            /\ save_ok
            /\ UNCHANGED db_file
    /\ UNCHANGED <<db, db_state, cancelled, num_database_update_active, is_shutting_down,
                   config, update_enabled, cancel_enabled, db_pool, next_req, idle, ref_count,
                   held, main, has_window, cancel_in>>

\* database_load: db_load returns ok; a failed load asks the main loop for a scan
\* unless update_database_on_launch is set
database_load_no_rescan(r, ok) ==
    /\ UNCHANGED <<unlocked_access, num_status, db_timeout_id, timeouts, local, opener>>
    /\ req[r].pc = "created"
    /\ req[r].action = FSEARCH_DATABASE_ACTION_LOAD
    /\ req' = [req EXCEPT ![r].pc = "updated", ![r].result = ok]
    /\ UNCHANGED <<db, db_state, cancelled, num_database_update_active, is_shutting_down,
                   config, update_enabled, cancel_enabled, db_pool, next_req, ref_count,
                   held, main, has_window, db_file, cancel_in, idle>>

database_load(r, ok) ==
    /\ UNCHANGED <<unlocked_access, num_status, db_timeout_id, timeouts, local, opener>>
    /\ req[r].pc = "created"
    /\ req[r].action = FSEARCH_DATABASE_ACTION_LOAD
    /\ req' = [req EXCEPT ![r].pc = "updated", ![r].result = ok]
    /\ IF ~ok /\ ~config.update_database_on_launch
       THEN /\ Budget >= 1
            /\ idle' = Append(idle, IdleSource("scan_enqueue", NULL))
       ELSE UNCHANGED idle
    /\ UNCHANGED <<db, db_state, cancelled, num_database_update_active, is_shutting_down,
                   config, update_enabled, cancel_enabled, db_pool, next_req, ref_count,
                   held, main, has_window, db_file, cancel_in>>

\* database_update_finished_cb, called by database_pool_func as finished_cb(db)
database_update_finished_cb_keeps_state(r) ==
    /\ UNCHANGED <<unlocked_access, num_status, db_timeout_id, timeouts, local, opener>>
    /\ req[r].pc = "updated"
    /\ req' = [req EXCEPT ![r].pc = "finished"]
    /\ idle' = Append(idle, IdleSource("update_finished", r))
    /\ UNCHANGED <<db, db_state, cancelled, num_database_update_active, is_shutting_down,
                   config, update_enabled, cancel_enabled, db_pool, next_req, ref_count, held,
                   main, has_window, db_file, cancel_in>>

\* (as if the worker installed the database itself)
database_update_finished_cb_publishes(r) ==
    /\ UNCHANGED <<unlocked_access, num_status, db_timeout_id, timeouts, local, opener>>
    /\ req[r].pc = "updated"
    /\ req' = [req EXCEPT ![r].pc = "finished"]
    /\ db_state' = FSEARCH_DATABASE_STATE_IDLE
    /\ db' = r
    /\ idle' = Append(idle, IdleSource("update_finished", r))
    /\ UNCHANGED <<cancelled, num_database_update_active, is_shutting_down, config,
                   update_enabled, cancel_enabled, db_pool, next_req, ref_count, held, main,
                   has_window, db_file, cancel_in>>

\* (as if finished_cb did not attach the idle source)
database_update_finished_cb_no_idle(r) ==
    /\ UNCHANGED <<unlocked_access, num_status, db_timeout_id, timeouts, local, opener>>
    /\ req[r].pc = "updated"
    /\ req' = [req EXCEPT ![r].pc = "finished"]
    /\ db_state' = FSEARCH_DATABASE_STATE_IDLE
    /\ UNCHANGED <<db, cancelled, num_database_update_active, is_shutting_down, config,
                   update_enabled, cancel_enabled, db_pool, next_req, ref_count, held, main,
                   has_window, db_file, cancel_in, idle>>

\* (as if the idle source were attached ahead of the pending ones)
database_update_finished_cb_prepend(r) ==
    /\ UNCHANGED <<unlocked_access, num_status, db_timeout_id, timeouts, local, opener>>
    /\ req[r].pc = "updated"
    /\ req' = [req EXCEPT ![r].pc = "finished"]
    /\ db_state' = FSEARCH_DATABASE_STATE_IDLE
    /\ idle' = <<IdleSource("update_finished", r)>> \o idle
    /\ UNCHANGED <<db, cancelled, num_database_update_active, is_shutting_down, config,
                   update_enabled, cancel_enabled, db_pool, next_req, ref_count, held, main,
                   has_window, db_file, cancel_in>>

database_update_finished_cb(r) ==
    /\ UNCHANGED <<unlocked_access, num_status, db_timeout_id, timeouts, local, opener>>
    /\ req[r].pc = "updated"
    /\ req' = [req EXCEPT ![r].pc = "finished"]
    /\ db_state' = FSEARCH_DATABASE_STATE_IDLE
    /\ idle' = Append(idle, IdleSource("update_finished", r))
    /\ UNCHANGED <<db, cancelled, num_database_update_active, is_shutting_down, config,
                   update_enabled, cancel_enabled, db_pool, next_req, ref_count, held, main,
                   has_window, db_file, cancel_in>>

\* ------------------------------------------------ main loop: idle callbacks
\* the main context dispatches idle sources of equal priority in the order they were
\* attached; it keeps doing so after shutdown returned (g_application_run drains it)
IdleReady(kind) ==
    /\ main \in {"running", "exited"}
    /\ idle # <<>>
    /\ Head(idle).kind = kind

\* on_database_scan_started / on_database_load_started: emit the signal
on_database_scan_started ==
    /\ UNCHANGED <<unlocked_access, num_status, db_timeout_id, timeouts, local, opener>>
    /\ IdleReady("scan_started")
    /\ idle' = Tail(idle)
    /\ UNCHANGED <<db, db_state, cancelled, num_database_update_active, is_shutting_down,
                   config, update_enabled, cancel_enabled, db_pool, req, next_req, ref_count,
                   held, main, has_window, db_file, cancel_in>>

on_database_load_started ==
    /\ UNCHANGED <<unlocked_access, num_status, db_timeout_id, timeouts, local, opener>>
    /\ IdleReady("load_started")
    /\ idle' = Tail(idle)
    /\ UNCHANGED <<db, db_state, cancelled, num_database_update_active, is_shutting_down,
                   config, update_enabled, cancel_enabled, db_pool, req, next_req, ref_count,
                   held, main, has_window, db_file, cancel_in>>

\* on_database_scan_enqueue; once shutdown has freed the pool and the cancellable,
\* g_cancellable_reset and g_thread_pool_push return without effect
on_database_scan_enqueue ==
    /\ UNCHANGED <<num_status, db_timeout_id, timeouts, local, opener>>
    /\ IdleReady("scan_enqueue")
    /\ idle' = Tail(idle)
    /\ IF main = "running"
       THEN database_scan_or_load_enqueue(<<FSEARCH_DATABASE_ACTION_SCAN>>)
       ELSE /\ update_enabled' = FALSE
            /\ cancel_enabled' = TRUE
            /\ num_database_update_active' = num_database_update_active + 1
            /\ unlocked_access' = Access("database_scan_or_load_enqueue")
            /\ UNCHANGED <<cancelled, cancel_in, req, db_pool, next_req>>
    /\ UNCHANGED <<db, db_state, is_shutting_down, config, ref_count, held, main,
                   has_window, db_file>>

\* (as if the replaced database were not released on publication)
on_database_update_finished_keeps_old ==
    /\ UNCHANGED <<num_status, db_timeout_id, timeouts, local, opener>>
    /\ IdleReady("update_finished")
    /\ idle' = Tail(idle)
    /\ LET r == Head(idle).r
       IN IF is_shutting_down
          THEN /\ ref_count' = db_unref(ref_count, r)
               /\ req' = [req EXCEPT ![r].pc = "done", ![r].creq = "none"]
               /\ UNCHANGED <<db, cancelled, cancel_in, num_database_update_active,
                              update_enabled, cancel_enabled, unlocked_access>>
          ELSE /\ IF ~cancelled
                  THEN /\ ref_count' = ref_count
                       /\ db' = r
                       /\ req' = [req EXCEPT ![r].pc = "done", ![r].creq = "none"]
                  ELSE /\ ref_count' = db_unref(ref_count, r)
                       /\ db' = db
                       /\ req' = [req EXCEPT ![r].pc = "done", ![r].creq = "none"]
               /\ cancelled' = FALSE
               /\ cancel_in' = "none"
               /\ unlocked_access' = Access("on_database_update_finished")
               /\ num_database_update_active' = num_database_update_active - 1
               /\ IF num_database_update_active - 1 = 0
                  THEN update_enabled' = TRUE /\ cancel_enabled' = FALSE
                  ELSE UNCHANGED <<update_enabled, cancel_enabled>>
    /\ UNCHANGED <<db_state, is_shutting_down, config, db_pool, next_req, held, main,
                   has_window, db_file>>

\* (as if the handler cleared the counter instead of decrementing it)
on_database_update_finished_zeroes ==
    /\ UNCHANGED <<num_status, db_timeout_id, timeouts, local, opener>>
    /\ IdleReady("update_finished")
    /\ idle' = Tail(idle)
    /\ LET r == Head(idle).r
       IN IF is_shutting_down
          THEN /\ ref_count' = db_unref(ref_count, r)
               /\ req' = [req EXCEPT ![r].pc = "done", ![r].creq = "none"]
               /\ UNCHANGED <<db, cancelled, cancel_in, num_database_update_active,
                              update_enabled, cancel_enabled, unlocked_access>>
          ELSE /\ IF ~cancelled
                  THEN /\ ref_count' = db_unref(ref_count, db)
                       /\ db' = r
                       /\ req' = [req EXCEPT ![r].pc = "done", ![r].creq = "none"]
                  ELSE /\ ref_count' = db_unref(ref_count, r)
                       /\ db' = db
                       /\ req' = [req EXCEPT ![r].pc = "done", ![r].creq = "none"]
               /\ cancelled' = FALSE
               /\ cancel_in' = "none"
               /\ unlocked_access' = Access("on_database_update_finished")
               /\ num_database_update_active' = 0
               /\ update_enabled' = TRUE /\ cancel_enabled' = FALSE
    /\ UNCHANGED <<db_state, is_shutting_down, config, db_pool, next_req, held, main,
                   has_window, db_file>>

\* on_database_update_finished(db)
on_database_update_finished ==
    /\ UNCHANGED <<num_status, db_timeout_id, timeouts, local, opener>>
    /\ IdleReady("update_finished")
    /\ idle' = Tail(idle)
    /\ LET r == Head(idle).r
       IN IF is_shutting_down
          THEN /\ ref_count' = db_unref(ref_count, r)
               /\ req' = [req EXCEPT ![r].pc = "done", ![r].creq = "none"]
               /\ UNCHANGED <<db, cancelled, cancel_in, num_database_update_active,
                              update_enabled, cancel_enabled, unlocked_access>>
          ELSE /\ IF ~cancelled
                  THEN /\ ref_count' = db_unref(ref_count, db)
                       /\ db' = r
                       /\ req' = [req EXCEPT ![r].pc = "done", ![r].creq = "none"]
                  ELSE /\ ref_count' = db_unref(ref_count, r)
                       /\ db' = db
                       /\ req' = [req EXCEPT ![r].pc = "done", ![r].creq = "none"]
               /\ cancelled' = FALSE
               /\ cancel_in' = "none"
               /\ unlocked_access' = Access("on_database_update_finished")
               /\ num_database_update_active' = num_database_update_active - 1
               /\ IF num_database_update_active - 1 = 0
                  THEN update_enabled' = TRUE /\ cancel_enabled' = FALSE
                  ELSE UNCHANGED <<update_enabled, cancel_enabled>>
    /\ UNCHANGED <<db_state, is_shutting_down, config, db_pool, next_req, held, main,
                   has_window, db_file>>

\* ------------------------------------------------------ snapshot holders
\* fsearch_application_get_db: db_ref(fsearch->db); db_ref(NULL) returns NULL
fsearch_application_get_db_no_ref(h) ==
    /\ UNCHANGED <<unlocked_access, num_status, db_timeout_id, timeouts, local, opener>>
    /\ main = "running"
    /\ held[h] = NULL
    /\ db # NULL
    /\ held' = [held EXCEPT ![h] = db]
    /\ UNCHANGED <<db, db_state, cancelled, num_database_update_active, is_shutting_down,
                   config, update_enabled, cancel_enabled, db_pool, req, next_req, idle,
                   ref_count, main, has_window, db_file, cancel_in>>

fsearch_application_get_db(h) ==
    /\ UNCHANGED <<unlocked_access, num_status, db_timeout_id, timeouts, local, opener>>
    /\ main = "running"
    /\ held[h] = NULL
    /\ db # NULL
    /\ ref_count' = db_ref(ref_count, db)
    /\ held' = [held EXCEPT ![h] = db]
    /\ UNCHANGED <<db, db_state, cancelled, num_database_update_active, is_shutting_down,
                   config, update_enabled, cancel_enabled, db_pool, req, next_req, idle,
                   main, has_window, db_file, cancel_in>>

\* the holder is done with its snapshot: db_unref
holder_db_unref(h) ==
    /\ UNCHANGED <<unlocked_access, num_status, db_timeout_id, timeouts, local, opener>>
    /\ held[h] # NULL
    /\ ref_count' = db_unref(ref_count, held[h])
    /\ held' = [held EXCEPT ![h] = NULL]
    /\ UNCHANGED <<db, db_state, cancelled, num_database_update_active, is_shutting_down,
                   config, update_enabled, cancel_enabled, db_pool, req, next_req, idle,
                   main, has_window, db_file, cancel_in>>

\* ----------------------------------------------------------------- shutdown
\* fsearch_application_shutdown up to g_thread_pool_free(pool, FALSE, TRUE), which
\* blocks the main thread until the worker has run every queued context
\* (first variant: as if is_shutting_down were not set)
fsearch_application_shutdown_begin_no_flag ==
    /\ UNCHANGED <<unlocked_access, num_status, db_timeout_id, timeouts, local, opener>>
    /\ main = "running"
    /\ main' = "shutting"
    /\ cancelled' = TRUE
    /\ cancel_in' = cancel_in
    /\ UNCHANGED <<db, db_state, num_database_update_active, config, update_enabled,
                   cancel_enabled, db_pool, req, next_req, idle, ref_count, held,
                   has_window, db_file, is_shutting_down>>

fsearch_application_shutdown_begin ==
    /\ UNCHANGED <<unlocked_access, num_status, db_timeout_id, timeouts, local, opener>>
    /\ main = "running"
    /\ main' = "shutting"
    /\ is_shutting_down' = TRUE
    /\ cancelled' = TRUE
    /\ cancel_in' = cancel_in
    /\ UNCHANGED <<db, db_state, num_database_update_active, config, update_enabled,
                   cancel_enabled, db_pool, req, next_req, idle, ref_count, held,
                   has_window, db_file>>

\* fsearch_application_shutdown after the pool has drained: release app->db
fsearch_application_shutdown_end ==
    /\ UNCHANGED <<num_status, db_timeout_id, timeouts, local, opener>>
    /\ main = "shutting"
    /\ db_pool = <<>>
    /\ Executing = {}
    /\ main' = "exited"
    /\ ref_count' = db_unref(ref_count, db)
    /\ db' = NULL
    /\ unlocked_access' = Access("fsearch_application_shutdown")
    /\ UNCHANGED <<db_state, cancelled, num_database_update_active, is_shutting_down,
                   config, update_enabled, cancel_enabled, db_pool, req, next_req, idle,
                   held, has_window, db_file, cancel_in>>

\* ------------------------------------------------------------ specification
Next ==
    \/ \E nw \in BOOLEAN : fsearch_application_activate(nw)
    \/ action_update_database_activated
    \/ \E c \in ConfigArgs : on_preferences_ui_finished(c)
    \/ action_cancel_update_database_activated
    \/ database_pool_func_start
    \/ \E r \in Requests : database_pool_func_db_new(r)
    \/ \E r \in Requests : db_scan_cancelled(r)
    \/ \E r \in Requests, ok \in BOOLEAN : db_scan_returns(r, ok)
    \/ \E r \in Requests, ok \in BOOLEAN : database_scan_and_save(r, ok)
    \/ \E r \in Requests, ok \in BOOLEAN : database_load(r, ok)
    \/ \E r \in Requests : database_update_finished_cb(r)
    \/ on_database_scan_started
    \/ on_database_load_started
    \/ on_database_scan_enqueue
    \/ on_database_update_finished
    \/ \E h \in Holders : fsearch_application_get_db(h)
    \/ \E h \in Holders : holder_db_unref(h)
    \/ fsearch_application_shutdown_begin
    \/ fsearch_application_shutdown_end

Spec == Init /\ [][Next]_vars

\* the steps of the pool thread and the idle callbacks of the main loop
Worker ==
    \/ database_pool_func_start
    \/ \E r \in Requests : database_pool_func_db_new(r)
    \/ \E r \in Requests : db_scan_cancelled(r)
    \/ \E r \in Requests, ok \in BOOLEAN : db_scan_returns(r, ok)
    \/ \E r \in Requests, ok \in BOOLEAN : database_scan_and_save(r, ok)
    \/ \E r \in Requests, ok \in BOOLEAN : database_load(r, ok)
    \/ \E r \in Requests : database_update_finished_cb(r)

MainLoop ==
    \/ on_database_scan_started
    \/ on_database_load_started
    \/ on_database_scan_enqueue
    \/ on_database_update_finished

\* the whole program with a worker thread that keeps running and a shutdown that
\* goes on when g_thread_pool_free returns
ShutdownSpec ==
    Init /\ [][Next]_vars /\ WF_vars(Worker) /\ WF_vars(fsearch_application_shutdown_end)

\* ------------------------------------------------------- auto-update timer
\* on_database_auto_update: the timer fires and activates update_database, which
\* enqueues a scan unless the action is disabled; the source stays attached
on_database_auto_update ==
    /\ UNCHANGED <<num_status, db_timeout_id, timeouts, local, opener>>
    /\ main = "running"
    /\ timeouts # {}
    /\ IF update_enabled
       THEN /\ Budget >= 1
            /\ database_scan_or_load_enqueue(<<FSEARCH_DATABASE_ACTION_SCAN>>)
       ELSE UNCHANGED <<update_enabled, cancel_enabled, cancelled, cancel_in,
                        num_database_update_active, req, db_pool, next_req, unlocked_access>>
    /\ UNCHANGED <<db, db_state, is_shutting_down, config, idle, ref_count, held, main,
                   has_window, db_file>>

\* the update protocol with the periodic update: the configurations differ in the
\* timer settings only; snapshot holders and shutdown are left out
TimerNext ==
    \/ \E nw \in BOOLEAN : fsearch_application_activate(nw)
    \/ \E c \in TimerConfigs \cup {NULL_CONFIG} : on_preferences_ui_finished(c)
    \/ on_database_auto_update
    \/ action_cancel_update_database_activated
    \/ Worker
    \/ MainLoop

TimerSpec ==
    Startup(TimerConfigs) /\ local = NoLocalRun /\ opener = NoOpenCall /\ [][TimerNext]_vars

\* ------------------------------------------- local option --update-database
EXIT_SUCCESS == 0
EXIT_FAILURE == 1

\* what a process started with --update-database meets: whether a primary instance
\* is running, whether g_bus_own_name obtains the worker name, whether the DescribeAll
\* call gets a reply (only a primary instance can give one), and what config_load,
\* config_load_default, db_scan, fsearch_application_get_database_dir and db_save return
LocalRuns ==
    {l \in [primary : BOOLEAN, name_acquired : BOOLEAN, reply : BOOLEAN,
            config_load : BOOLEAN, config_load_default : BOOLEAN, db_scan : BOOLEAN,
            db_path : BOOLEAN, db_save : BOOLEAN,
            pc : {"own_name"}, update_called_on_primary : {FALSE}, activated : {FALSE},
            scanned : {FALSE}, saved : {FALSE}, res : {0}] :
        l.reply => l.primary}

\* fsearch_application_local_database_scan: g_bus_own_name and g_main_loop_run; the
\* name is obtained and on_name_acquired runs
\* (first variant: as if the reply of the primary instance were not looked at)
on_name_acquired_any_reply ==
    /\ local.pc = "own_name"
    /\ local.name_acquired
    /\ local' = [local EXCEPT !.pc = "loop_quit"]
    /\ UNCHANGED <<db, db_state, cancelled, num_database_update_active, is_shutting_down,
                   config, update_enabled, cancel_enabled, db_pool, req, next_req, idle,
                   ref_count, held, main, has_window, db_file, cancel_in, unlocked_access,
                   num_status, db_timeout_id, timeouts, opener>>

on_name_acquired ==
    /\ local.pc = "own_name"
    /\ local.name_acquired
    /\ local' = IF local.reply
                THEN [local EXCEPT !.pc = "loop_quit", !.activated = TRUE,
                                   !.update_called_on_primary = TRUE]
                ELSE [local EXCEPT !.pc = "loop_quit"]
    /\ UNCHANGED <<db, db_state, cancelled, num_database_update_active, is_shutting_down,
                   config, update_enabled, cancel_enabled, db_pool, req, next_req, idle,
                   ref_count, held, main, has_window, db_file, cancel_in, unlocked_access,
                   num_status, db_timeout_id, timeouts, opener>>

\* the name is not obtained and on_name_lost quits the loop
on_name_lost ==
    /\ local.pc = "own_name"
    /\ ~local.name_acquired
    /\ local' = [local EXCEPT !.pc = "loop_quit"]
    /\ UNCHANGED <<db, db_state, cancelled, num_database_update_active, is_shutting_down,
                   config, update_enabled, cancel_enabled, db_pool, req, next_req, idle,
                   ref_count, held, main, has_window, db_file, cancel_in, unlocked_access,
                   num_status, db_timeout_id, timeouts, opener>>

\* fsearch_application_local_database_scan after g_main_loop_run returned
fsearch_application_local_database_scan ==
    /\ local.pc = "loop_quit"
    /\ local' = IF local.update_called_on_primary
                THEN [local EXCEPT !.pc = "returned", !.res = 0]
                ELSE [local EXCEPT !.pc = "scan_local"]
    /\ UNCHANGED <<db, db_state, cancelled, num_database_update_active, is_shutting_down,
                   config, update_enabled, cancel_enabled, db_pool, req, next_req, idle,
                   ref_count, held, main, has_window, db_file, cancel_in, unlocked_access,
                   num_status, db_timeout_id, timeouts, opener>>

\* database_scan_in_local_instance
database_scan_in_local_instance ==
    /\ local.pc = "scan_local"
    /\ local' =
         IF ~local.config_load /\ ~local.config_load_default
         THEN [local EXCEPT !.pc = "returned", !.res = EXIT_FAILURE]
         ELSE IF local.db_scan /\ local.db_path
              THEN [local EXCEPT !.pc = "returned", !.scanned = TRUE, !.saved = TRUE,
                                 !.res = IF local.db_save THEN EXIT_SUCCESS
                                         ELSE EXIT_FAILURE]
              ELSE [local EXCEPT !.pc = "returned", !.scanned = TRUE,
                                 !.res = EXIT_FAILURE]
    /\ UNCHANGED <<db, db_state, cancelled, num_database_update_active, is_shutting_down,
                   config, update_enabled, cancel_enabled, db_pool, req, next_req, idle,
                   ref_count, held, main, has_window, db_file, cancel_in, unlocked_access,
                   num_status, db_timeout_id, timeouts, opener>>

LocalNext ==
    \/ on_name_acquired
    \/ on_name_lost
    \/ fsearch_application_local_database_scan
    \/ database_scan_in_local_instance

LocalSpec ==
    Startup(Configs) /\ local \in LocalRuns /\ opener = NoOpenCall /\ [][LocalNext]_vars

\* ---------------------------------------- fsearch_file_utils.c: opening paths
\* what opening one path meets: the content type fsearch_file_utils_get_content_type
\* finds for it (or the failure of the query, which sets an error), and whether
\* launching it, or the group of its content type, fails with an error
DESKTOP_CONTENT_TYPE == "application/x-desktop"
QUERY_FAILED == "query failed"
PathResults ==
    [content_type : {DESKTOP_CONTENT_TYPE, "text/plain", QUERY_FAILED},
     launch_fails : BOOLEAN]

\* the non-empty GLists of at most MaxPaths paths
PathLists == UNION {[1..n -> PathResults] : n \in 1..MaxPaths}

\* n messages of one kind, each appended by add_error_message with its newline
Messages(kind, n) == [i \in 1..n |-> kind]

\* launch_default_for_path: one message for each path whose launch sets an error
launch_default_for_path(paths) ==
    Messages("launch", Cardinality({i \in 1..Len(paths) : paths[i].launch_fails}))

\* collect_for_content_type over the paths: one message for each failed query; the
\* other paths are grouped by content type
collect_for_content_type(paths) ==
    Messages("content type",
             Cardinality({i \in 1..Len(paths) : paths[i].content_type = QUERY_FAILED}))

\* launch_for_content_type for the group of content type t: desktop files are launched
\* one by one when asked for, any other group by one g_app_info_launch_uris
launch_for_content_type(t, paths, launch_desktop_applications) ==
    LET files == {i \in 1..Len(paths) : paths[i].content_type = t}
        failing == {i \in files : paths[i].launch_fails}
    IN IF launch_desktop_applications /\ t = DESKTOP_CONTENT_TYPE
       THEN Messages("launch", Cardinality(failing))
       ELSE IF failing # {} THEN Messages("launch", 1) ELSE <<>>

\* fsearch_file_utils_open_path_list(paths, launch_desktop_files, ..., error_message)
\* with the caller's buffer: sandboxed, ask the system for each path; otherwise collect
\* by content type and launch each group; return whether the buffer is empty
fsearch_file_utils_open_path_list(paths, launch_desktop_files) ==
    LET appended ==
            IF opener.sandboxed
            THEN launch_default_for_path(paths)
            ELSE collect_for_content_type(paths)
                 \o launch_for_content_type(DESKTOP_CONTENT_TYPE, paths, launch_desktop_files)
                 \o launch_for_content_type("text/plain", paths, launch_desktop_files)
        error_message == opener.error_message \o appended
    IN /\ Len(error_message) <= MaxMessages
       /\ opener' = [opener EXCEPT !.error_message = error_message,
                                   !.paths = paths,
                                   !.recorded = Len(appended),
                                   !.called = TRUE,
                                   !.ret = IF Len(error_message) > 0 THEN FALSE ELSE TRUE]
       /\ UNCHANGED <<db, db_state, cancelled, num_database_update_active, is_shutting_down,
                      config, update_enabled, cancel_enabled, db_pool, req, next_req, idle,
                      ref_count, held, main, has_window, db_file, cancel_in,
                      unlocked_access, num_status, db_timeout_id, timeouts, local>>

\* calls of fsearch_file_utils_open_path_list that share one error_message buffer, as
\* fsearch_file_utils_open_parent_folder_with_optional_command_from_path_list makes
\* them, one for each path; app_is_sandboxed is fixed for the process
OpenNext ==
    \E paths \in PathLists, launch_desktop_files \in BOOLEAN :
        fsearch_file_utils_open_path_list(paths, launch_desktop_files)

OpenSpec ==
    /\ Startup(Configs)
    /\ local = NoLocalRun
    /\ opener \in {[NoOpenCall EXCEPT !.sandboxed = b] : b \in BOOLEAN}
    /\ [][OpenNext]_vars

\* ------------------------------------------------------------ status texts
\* the texts db_scan, db_load and database_scan_and_save pass to the status callback
\* (given to them when show_indexing_status is set): a string, here 1, or NULL
StatusTexts == {NULL, 1}

\* (as if the text were handed over synchronously: wait while one is undelivered)
database_notify_status_cb_waits(r, text) ==
    /\ req[r].pc \in {"created", "returned"}
    /\ num_status < MaxStatus
    /\ \A i \in 1..Len(idle) : idle[i].kind # "notify_status"
    /\ num_status' = num_status + 1
    /\ idle' = IF text # NULL THEN Append(idle, IdleSource("notify_status", text)) ELSE idle
    /\ UNCHANGED <<db, db_state, cancelled, num_database_update_active, is_shutting_down,
                   config, update_enabled, cancel_enabled, db_pool, req, next_req, ref_count,
                   held, main, has_window, db_file, cancel_in, unlocked_access,
                   db_timeout_id, timeouts, local, opener>>

\* database_notify_status_cb(text), called on the worker thread inside update_func
database_notify_status_cb(r, text) ==
    /\ req[r].pc \in {"created", "returned"}
    /\ num_status < MaxStatus
    /\ num_status' = num_status + 1
    /\ idle' = IF text # NULL THEN Append(idle, IdleSource("notify_status", text)) ELSE idle
    /\ UNCHANGED <<db, db_state, cancelled, num_database_update_active, is_shutting_down,
                   config, update_enabled, cancel_enabled, db_pool, req, next_req, ref_count,
                   held, main, has_window, db_file, cancel_in, unlocked_access,
                   db_timeout_id, timeouts, local, opener>>

\* on_database_notify_status: show the text in every window and free it
on_database_notify_status ==
    /\ IdleReady("notify_status")
    /\ idle' = Tail(idle)
    /\ UNCHANGED <<db, db_state, cancelled, num_database_update_active, is_shutting_down,
                   config, update_enabled, cancel_enabled, db_pool, req, next_req, ref_count,
                   held, main, has_window, db_file, cancel_in, unlocked_access, num_status,
                   db_timeout_id, timeouts, local, opener>>

\* the update protocol with status texts; snapshot holders and the preferences dialog,
\* which touch neither the idle sources nor the worker, are left out
StatusNext ==
    \/ \E nw \in BOOLEAN : fsearch_application_activate(nw)
    \/ action_update_database_activated
    \/ action_cancel_update_database_activated
    \/ Worker
    \/ MainLoop
    \/ \E r \in Requests, text \in StatusTexts : database_notify_status_cb(r, text)
    \/ on_database_notify_status
    \/ fsearch_application_shutdown_begin
    \/ fsearch_application_shutdown_end

StatusSpec == Init /\ [][StatusNext]_vars

\* the application keeps running (no shutdown); the pool thread runs whenever it has
\* work and the main loop dispatches every attached idle source
LiveNext ==
    \/ \E nw \in BOOLEAN : fsearch_application_activate(nw)
    \/ action_update_database_activated
    \/ \E c \in ConfigArgs : on_preferences_ui_finished(c)
    \/ action_cancel_update_database_activated
    \/ Worker
    \/ MainLoop
    \/ \E h \in Holders : fsearch_application_get_db(h)
    \/ \E h \in Holders : holder_db_unref(h)

LiveSpec == Init /\ [][LiveNext]_vars /\ WF_vars(Worker) /\ WF_vars(MainLoop)

TypeOK ==
    /\ db \in Requests \cup {NULL}
    /\ db_state \in {FSEARCH_DATABASE_STATE_IDLE, FSEARCH_DATABASE_STATE_SCANNING,
                     FSEARCH_DATABASE_STATE_LOADING}
    /\ cancelled \in BOOLEAN
    /\ num_database_update_active \in Int
    /\ next_req \in 0..MaxRequests
    /\ main \in {"running", "shutting", "exited"}
    /\ config \in AllConfigs
    /\ db_timeout_id \in Nat

\* ------------------------------------------------------------------ claims
\* the step in which the finish handler of request r runs
HandlerRuns(r) == req[r].pc = "finished" /\ req'[r].pc = "done"

PendingFinished == {i \in 1..Len(idle) : idle[i].kind = "update_finished"}

\* C1: a request during whose flight a cancellation was requested never changes the
\* published database: its finish handler leaves app->db as it was.
C1_CancelledRequestLeavesDb ==
    [][\A r \in Requests : (HandlerRuns(r) /\ req[r].creq # "none") => db' = db]_vars

\* C2: a store built by a db_scan call that saw the cancellation flag set is never
\* installed as app->db.
C2_PartialStoreNeverPublished ==
    db # NULL => ~req[db].saw_cancel

\* C3: when db_scan returned failure and no cancellation was requested, the finish
\* handler of the scan leaves app->db referring to the previous snapshot.
C3_FailedScanLeavesDb ==
    [][\A r \in Requests :
         (/\ HandlerRuns(r)
          /\ req[r].action = FSEARCH_DATABASE_ACTION_SCAN
          /\ ~req[r].result /\ ~req[r].saw_cancel /\ req[r].creq = "none")
         => db' = db]_vars

\* C4: when db_load returned failure, the finish handler of the load publishes
\* nothing: app->db is unchanged.
C4_FailedLoadLeavesDb ==
    [][\A r \in Requests :
         (/\ HandlerRuns(r)
          /\ req[r].action = FSEARCH_DATABASE_ACTION_LOAD
          /\ ~req[r].result)
         => db' = db]_vars

\* C5: at most one request is between its started callback and its finished callback.
C5_AtMostOneExecuting ==
    Cardinality(Executing) <= 1

C5_Witness ==
    /\ Cardinality(Executing) = 1
    /\ db_pool # <<>>

\* C6: a snapshot held through fsearch_application_get_db keeps a reference count of
\* at least 1 and stays the same store until its holder releases it.
C6_HeldSnapshotStays ==
    /\ [](\A h \in Holders : held[h] # NULL => ref_count[held[h]] >= 1)
    /\ [][\A h \in Holders : held[h] # NULL => held'[h] \in {held[h], NULL}]_vars

C6_Witness ==
    \E h \in Holders : held[h] # NULL /\ db # NULL /\ db # held[h]

\* C7: a cancel issued while db_state is idle has no effect (no finish handler discards
\* its store because of it and no db_scan returns early because of it), and a cancel
\* issued while the running request is scanning or loading keeps that request's store
\* from being published.
C7_CancelOnlyWhileBusy ==
    [][\A r \in Requests :
         /\ (HandlerRuns(r) /\ ~is_shutting_down /\ cancel_in = "idle") => db' = r
         /\ (req[r].pc = "created" /\ req'[r].saw_cancel) => cancel_in # "idle"
         /\ (HandlerRuns(r) /\ req[r].creq = "running") => db' = db]_vars

\* C8: db_state leaves idle only from idle and a started callback only runs in idle:
\* every change of db_state has idle on one side.
C8_DbStateMachine ==
    [][/\ db_state' # db_state =>
            (db_state = FSEARCH_DATABASE_STATE_IDLE \/ db_state' = FSEARCH_DATABASE_STATE_IDLE)
       /\ \A r \in Requests :
            (req[r].pc = "queued" /\ req'[r].pc = "started")
            => db_state = FSEARCH_DATABASE_STATE_IDLE]_vars

C8_Witness ==
    /\ db_state = FSEARCH_DATABASE_STATE_SCANNING
    /\ \E r \in Requests : req[r].pc \in {"finished", "done"}

\* C9: at most one completed store is waiting for its finish handler.
C9_OnePendingPublication ==
    Cardinality(PendingFinished) <= 1

\* C10: requests are executed in submission order: when a request has had its started
\* callback, every request enqueued before it has had its finished callback.
C10_Fifo ==
    \A r1, r2 \in Requests :
        (r1 < r2 /\ req[r2].pc \in ExecutingPcs \cup {"finished", "done"})
        => req[r1].pc \in {"finished", "done"}

C10_Witness ==
    \E r1, r2 \in Requests :
        r1 < r2 /\ req[r2].pc = "started" /\ req[r1].pc \in {"finished", "done"}

\* C11: finish handlers run in the order in which the requests completed (with the one
\* worker, the order of their ids), each handler that finds the cancellable clear
\* installs its store as app->db, and so the handler of the last outstanding request,
\* when not cancelled, leaves app->db at the store of the request that completed last.
C11_PublishInCompletionOrder ==
    [][\A r \in Requests :
         HandlerRuns(r) =>
           /\ \A r2 \in Requests : req[r2].pc = "finished" => r <= r2
           /\ \A r2 \in Requests : (r2 < r /\ req[r2].pc # "none") => req[r2].pc = "done"
           /\ ~cancelled => db' = r
           /\ (~cancelled /\ InFlight = {r}) => db' = next_req]_vars

C11_Witness ==
    /\ next_req >= 2
    /\ InFlight = {}
    /\ db = next_req
    /\ ~is_shutting_down

\* C12: every read and write of app->db and of num_database_update_active is performed
\* with the state lock held: no function has touched them outside the lock.
C12_AccessesUnderStateLock ==
    unlocked_access = {}

\* the step in which db_load of request r returns failure
LoadFails(r) ==
    /\ req[r].pc = "created" /\ req[r].action = FSEARCH_DATABASE_ACTION_LOAD
    /\ req'[r].pc = "updated" /\ ~req'[r].result

RanPcs == {"returned", "updated", "finished", "done"}

PendingFinishedOf(r) ==
    {i \in 1..Len(idle) : idle[i].kind = "update_finished" /\ idle[i].r = r}

\* C14: with a fair worker and main loop and no shutdown, every accepted request gets
\* its finish handler run (in the end all of the finitely many requests are handled),
\* exactly once: one handler is pending exactly while the request has completed and not
\* been handled, and a handled request stays handled; enqueueing does not wait for the
\* worker.
C14_EveryRequestFinishesOnce ==
    /\ <>[](\A r \in Requests : req[r].pc \in {"none", "done"})
    /\ [](\A r \in Requests :
            Cardinality(PendingFinishedOf(r)) = IF req[r].pc = "finished" THEN 1 ELSE 0)
    /\ [][\A r \in Requests : req[r].pc = "done" => req'[r].pc = "done"]_vars
    /\ []((main = "running" /\ has_window /\ Budget >= 1)
            => ENABLED (\E c \in Configs : on_preferences_ui_finished(c)))

C14_Witness ==
    /\ \E r \in Requests : req[r].pc = "done"
    /\ InFlight # {}

\* the step in which database_scan_and_save of request r calls db_save
SaveInvoked(r) ==
    /\ req[r].pc = "returned" /\ req'[r].pc = "updated"
    /\ req[r].result /\ ~cancelled

\* C15 as stated: whenever db_save writes the database file, what it writes is the
\* store published as app->db at that moment.
C15_SaveWritesPublishedStore ==
    [][db_file' # db_file => db_file' = db]_vars

\* C15 amended: whenever db_save writes the database file, what it writes is the store
\* just built by the successful, not cancelled scan of the running request, which is
\* not app->db at that moment.
C15_SaveWritesNewStore ==
    [][db_file' # db_file =>
         \E r \in Requests :
            /\ SaveInvoked(r)
            /\ req[r].action = FSEARCH_DATABASE_ACTION_SCAN
            /\ db_file' = r
            /\ db # r]_vars

C15_Witness ==
    /\ db_file # NULL
    /\ req[db_file].pc = "updated"
    /\ db # NULL /\ db # db_file

PendingStatus == {i \in 1..Len(idle) : idle[i].kind = "notify_status"}

\* C16: emitting a status text never waits for the consumer: while update_func runs, the
\* call of database_notify_status_cb is enabled whatever the main loop is doing and
\* however many texts are undelivered; a text is appended to the idle sources and a
\* NULL text leaves them as they are.
C16_StatusEmissionNeverWaits ==
    /\ [](\A r \in Requests, text \in StatusTexts :
            (req[r].pc \in {"created", "returned"} /\ num_status < MaxStatus)
            => ENABLED database_notify_status_cb(r, text))
    /\ [][\A r \in Requests, text \in StatusTexts :
            database_notify_status_cb(r, text) =>
              IF text = NULL
              THEN idle' = idle
              ELSE idle' = Append(idle, IdleSource("notify_status", text))]_vars

C16_Witness ==
    /\ Cardinality(PendingStatus) >= 2
    /\ main = "shutting"
    /\ num_status = MaxStatus

\* C17: num_database_update_active is never negative and, while the application is not
\* shutting down, equals the number of requests in flight; every enqueue increments it,
\* also while another request is in flight, and the later request still runs after the
\* earlier one.
C17_CounterCountsInFlight ==
    /\ [](num_database_update_active >= 0)
    /\ [](~is_shutting_down => num_database_update_active = Cardinality(InFlight))
    /\ [][next_req' # next_req =>
            num_database_update_active' = num_database_update_active + (next_req' - next_req)]_vars
    /\ [](\A r1, r2 \in Requests :
            (r1 < r2 /\ req[r2].pc \in ExecutingPcs) => req[r1].pc \in {"finished", "done"})

C17_Witness ==
    /\ num_database_update_active >= 2
    /\ Executing # {}
    /\ db_pool # <<>>
    /\ ~is_shutting_down

\* C18: app->db changes only in the finish handler of a request that finds the
\* cancellable clear outside shutdown (to that request's store) and at the end of
\* fsearch_application_shutdown (to NULL); every other step leaves it alone, and
\* fsearch_application_get_db hands out the store that is app->db at that moment.
C18_DbFrame ==
    /\ [][db' # db =>
            \/ \E r \in Requests :
                 HandlerRuns(r) /\ ~cancelled /\ ~is_shutting_down /\ db' = r
            \/ main = "shutting" /\ main' = "exited" /\ db' = NULL]_vars
    /\ [][\A h \in Holders : (held[h] = NULL /\ held'[h] # NULL) =>
            (held'[h] = db /\ db' = db)]_vars

C18_Witness ==
    \E r \in Requests, h \in Holders :
        req[r].pc = "updated" /\ db # NULL /\ db # r /\ held[h] = db

\* the references the program holds on the database made for request s: one per
\* holder from fsearch_application_get_db, one while it is app->db, and one owned by
\* the worker and then by the pending finish handler from db_new until that handler ran
Owners(s) ==
    Cardinality({h \in Holders : held[h] = s})
    + (IF db = s THEN 1 ELSE 0)
    + (IF req[s].pc \in {"created", "returned", "updated", "finished"} THEN 1 ELSE 0)

\* C19: the reference count of every database equals the number of its owners (the
\* worker or its pending finish handler, app->db, and the holders from
\* fsearch_application_get_db), so the application's reference is dropped exactly once
\* (when the database is replaced, at shutdown, or by the finish handler on the
\* cancelled or shutting-down path), never twice, and a database reaches count zero
\* only once no holder remains and it is neither app->db nor about to be handled.
C19_ReferencesMatchOwners ==
    /\ [](\A s \in Requests : ref_count[s] = Owners(s))
    /\ [](\A s \in Requests : req[s].pc = "done" =>
            (db = s \/ ref_count[s] = Cardinality({h \in Holders : held[h] = s})))
    /\ [][\A s \in Requests : (ref_count[s] >= 1 /\ ref_count'[s] = 0) =>
            (db' # s /\ \A h \in Holders : held'[h] # s)]_vars

C19_Witness ==
    \E h \in Holders :
        /\ held[h] # NULL /\ db # NULL /\ held[h] # db
        /\ ref_count[held[h]] = 1
        /\ req[held[h]].pc = "done"

\* the positions at which the worker still has a read of app->config ahead of it:
\* before db_new (indexes, exclusion rules, hidden flag), and inside update_func
\* before and after db_scan / db_load (show_indexing_status, update_database_on_launch)
ConfigReadPcs == {"started", "created", "returned"}

\* C20: on_preferences_ui_finished never replaces (and frees) app->config between the
\* moment the worker starts a request and the return of that request's update_func,
\* the span in which the worker reads app->config; so a request reads one single
\* configuration, the one in effect when the worker started it.
C20_ConfigStableWhileWorkerReads ==
    [][config' # config => \A r \in Requests : req[r].pc \notin ConfigReadPcs]_vars

\* C21: outside shutdown, when num_database_update_active is 0 nothing of an update
\* is left: db_state is idle, the pool queue is empty, no request is executing and no
\* finish handler is pending.
C21_ZeroCounterMeansQuiet ==
    (num_database_update_active = 0 /\ ~is_shutting_down) =>
        /\ db_state = FSEARCH_DATABASE_STATE_IDLE
        /\ db_pool = <<>>
        /\ Executing = {}
        /\ PendingFinished = {}

C21_Witness ==
    /\ num_database_update_active = 0
    /\ ~is_shutting_down
    /\ \E r \in Requests : req[r].pc = "done"
    /\ db # NULL

\* C22: update_database is enabled exactly when num_database_update_active is 0; it
\* is disabled by every enqueue and enabled again only by the finish handler that
\* brings the counter to 0, so an activation of update_database only ever enqueues
\* its scan when no request is in flight.
C22_UpdateEnabledIffCounterZero ==
    /\ [](update_enabled <=> num_database_update_active = 0)
    /\ [][next_req' > next_req => ~update_enabled']_vars
    /\ [][(~update_enabled /\ update_enabled') =>
            (num_database_update_active' = 0 /\ \E r \in Requests : HandlerRuns(r))]_vars
    /\ [][action_update_database_activated =>
            (InFlight = {} /\ num_database_update_active = 0)]_vars

C22_Witness ==
    /\ update_enabled
    /\ ~is_shutting_down
    /\ next_req >= 1
    /\ InFlight = {}
    /\ Budget >= 1

\* C23: cancel_update_database is enabled exactly when num_database_update_active
\* is greater than 0, in every state from application start on.
C23_CancelEnabledIffCounterPositive ==
    cancel_enabled <=> num_database_update_active > 0

\* C24: a store that db_save wrote to the database file is the store its finish handler
\* publishes: when the handler of the request whose store is in the file runs, that
\* store becomes app->db.
C24_SavedStoreIsPublished ==
    [][\A r \in Requests : (HandlerRuns(r) /\ db_file = r) => db' = r]_vars

\* C25: the database file is written only by database_scan_and_save of a scan request
\* whose db_scan returned success without having seen a cancellation and with the
\* cancellable clear at the test that follows db_scan; load requests, failed scans and
\* cancelled scans leave the file as it is.
C25_SaveOnlyAfterGoodScan ==
    [][db_file' # db_file =>
         \E r \in Requests :
            /\ req[r].action = FSEARCH_DATABASE_ACTION_SCAN
            /\ req[r].pc = "returned" /\ req'[r].pc = "updated"
            /\ req[r].result
            /\ ~req[r].saw_cancel
            /\ ~cancelled
            /\ db_file' = r]_vars

C25_Witness ==
    /\ db_file # NULL
    /\ \E r \in Requests :
          /\ r # db_file
          /\ req[r].pc \in {"updated", "finished", "done"}
          /\ (req[r].action = FSEARCH_DATABASE_ACTION_LOAD \/ ~req[r].result)

\* C26: once fsearch_application_shutdown has begun, a finish handler changes neither
\* app->db nor num_database_update_active and only releases the store it was given;
\* shutdown goes on only when no request is queued or executing any more, and it
\* does go on: the worker drains the queue and shutdown completes.
C26_ShutdownDrains ==
    /\ [][\A r \in Requests : (HandlerRuns(r) /\ main # "running") =>
            /\ db' = db
            /\ num_database_update_active' = num_database_update_active
            /\ ref_count' = db_unref(ref_count, r)]_vars
    /\ [](main = "exited" => \A r \in Requests : req[r].pc \in {"none", "finished", "done"})
    /\ [](main = "shutting" => <>(main = "exited"))

C26_Witness ==
    /\ main = "exited"
    /\ idle = <<>>
    /\ InFlight = {}
    /\ num_database_update_active >= 2
    /\ \A r \in Requests : req[r].pc = "done" /\ ref_count[r] = 0

\* a step of fsearch_application_activate that opens a window
Activates == \E nw \in BOOLEAN : fsearch_application_activate(nw)

\* C27: an activation enqueues a load and, exactly when update_database_on_launch is
\* set, a scan right behind it; of a load and the scan behind it the load's finish
\* handler runs first, update_database stays disabled when the load's handler runs
\* while the scan is in flight, and a handler that finds the cancellable clear makes
\* its store app->db, so the scan's store is the last one installed. While the
\* fallback scan of a failed load is waiting to be enqueued the counter is above 0 and
\* update_database is disabled.
C27_LoadThenScan ==
    /\ [][Activates =>
            /\ req'[next_req + 1].action = FSEARCH_DATABASE_ACTION_LOAD
            /\ req'[next_req + 1].pc = "queued"
            /\ IF config.update_database_on_launch
               THEN /\ next_req' = next_req + 2
                    /\ req'[next_req + 2].action = FSEARCH_DATABASE_ACTION_SCAN
                    /\ req'[next_req + 2].pc = "queued"
                    /\ db_pool' = db_pool \o <<next_req + 1, next_req + 2>>
               ELSE /\ next_req' = next_req + 1
                    /\ db_pool' = db_pool \o <<next_req + 1>>]_vars
    /\ [][\A r1, r2 \in Requests :
            (/\ r1 < r2
             /\ req[r1].action = FSEARCH_DATABASE_ACTION_LOAD
             /\ req[r2].action = FSEARCH_DATABASE_ACTION_SCAN
             /\ req[r1].pc # "none") =>
                /\ HandlerRuns(r2) => req[r1].pc = "done"
                /\ (HandlerRuns(r1) /\ r2 \in InFlight) =>
                      (~update_enabled' /\ num_database_update_active' >= 1)
                /\ (HandlerRuns(r2) /\ ~cancelled /\ ~is_shutting_down) => db' = r2]_vars
    /\ [](PendingScanEnqueue > 0 => (num_database_update_active >= 1 /\ ~update_enabled))

C27_Witness ==
    /\ req[1].action = FSEARCH_DATABASE_ACTION_LOAD /\ req[1].pc = "done"
    /\ req[2].action = FSEARCH_DATABASE_ACTION_SCAN /\ req[2].pc = "done"
    /\ config.update_database_on_launch
    /\ db = 2
    /\ ~is_shutting_down
    /\ ~cancel_enabled

\* the preferences dialog hands over a configuration with other roots
PreferencesChangeIndexes ==
    \E c \in Configs : c.indexes # config.indexes /\ on_preferences_ui_finished(c)

\* C28: on_preferences_ui_finished with a configuration enqueues one scan exactly when
\* the database part differs from the current configuration's, and does so whether or
\* not a request is in flight; with NULL it changes nothing.
C28_PreferencesEnqueueOnChange ==
    /\ [][\A c \in Configs : on_preferences_ui_finished(c) =>
            /\ config' = c
            /\ IF c.indexes # config.indexes
               THEN /\ next_req' = next_req + 1
                    /\ req'[next_req'].action = FSEARCH_DATABASE_ACTION_SCAN
                    /\ req'[next_req'].pc = "queued"
                    /\ db_pool' = Append(db_pool, next_req')
                    /\ num_database_update_active' = num_database_update_active + 1
               ELSE UNCHANGED <<next_req, req, db_pool, num_database_update_active,
                                cancelled, update_enabled, cancel_enabled>>]_vars
    /\ [][on_preferences_ui_finished(NULL_CONFIG) => UNCHANGED vars]_vars
    /\ []((main = "running" /\ has_window /\ Budget >= 1) => ENABLED PreferencesChangeIndexes)

C28_Witness ==
    /\ InFlight # {}
    /\ ~update_enabled
    /\ main = "running" /\ has_window /\ Budget >= 1
    /\ \E r \in Requests : req[r].pc \in {"created", "finished"}

\* the interval of the periodic update under configuration cfg, in seconds
Interval(cfg) ==
    LET seconds == cfg.update_database_every_hours * 3600
                   + cfg.update_database_every_minutes * 60
    IN IF seconds < 60 THEN 60 ELSE seconds

\* C29: at most one auto-update timer is attached; once database_auto_update_init
\* has been called (a window exists) there is exactly one when update_database_every
\* is set, under the id in db_timeout_id and with the interval hours*3600 + minutes*60
\* seconds or 60 if that is less, and none (and db_timeout_id 0) otherwise.
C29_OneAutoUpdateTimer ==
    /\ Cardinality(timeouts) <= 1
    /\ has_window =>
          IF config.update_database_every
          THEN /\ db_timeout_id # 0
               /\ timeouts = {[id |-> db_timeout_id, seconds |-> Interval(config)]}
          ELSE /\ db_timeout_id = 0
               /\ timeouts = {}
    /\ ~has_window => (timeouts = {} /\ db_timeout_id = 0)

C29_Witness ==
    /\ config.update_database_every
    /\ config.update_database_every_hours = 0
    /\ config.update_database_every_minutes = 0
    /\ timeouts = {[id |-> db_timeout_id, seconds |-> 60]}
    /\ next_req = MaxRequests
    /\ \E r \in Requests : req[r].action = FSEARCH_DATABASE_ACTION_SCAN /\ req[r].pc = "done"

\* the local process got an answer from a primary instance
PrimaryAnswered == local.name_acquired /\ local.reply

\* what the claim says of database_scan_in_local_instance: success exactly when the
\* configuration was loaded and db_scan and db_save succeeded, no db_save after a
\* failed db_scan
LocalScanResult ==
    /\ local.res = EXIT_SUCCESS <=>
          /\ local.config_load \/ local.config_load_default
          /\ local.db_scan
          /\ local.saved /\ local.db_save
    /\ local.saved => (local.scanned /\ local.db_scan)
    /\ local.scanned => (local.config_load \/ local.config_load_default)

C31_OpenResultIsOfThisCall ==
    opener.called => (opener.ret <=> opener.recorded = 0)

====
